---- MODULE Spec2Model ----
(***************************************************************************)
(* Live-update channel of the Avalanche voting analytics dashboard.        *)
(*                                                                         *)
(* The repository holds four rewrites of the same page script.  The model  *)
(* covers all four; the variable `variant` says which one is running:      *)
(*   "script" = src/script.js          "yatish" = src/yatish/script.js     *)
(*   "part0"  = src/unnamed/part_000   "part1"  = src/unnamed/part_001     *)
(*                                                                         *)
(* Transport.  Every call of connect() runs                                *)
(*   io(URL, {transports, timeout: 20000, forceNew: true})                 *)
(* which builds a fresh socket.io manager with the library defaults, i.e.  *)
(* automatic reconnection.  A socket is never closed by the page, and the  *)
(* handlers registered on it refer to the WebSocketManager, not to the     *)
(* socket, so every socket ever created can keep delivering 'connect',     *)
(* 'connect_error' and 'disconnect' to the same handlers.  Sockets differ  *)
(* only in being this.socket or a superseded one, so they are kept as      *)
(* this.socket's state plus a count of superseded sockets per state.       *)
(***************************************************************************)
EXTENDS Integers, Sequences, FiniteSets, TLC

Variants == {"script", "yatish", "part0", "part1"}

(* ------------------------------ bounds --------------------------------- *)
\* sockets created / reconnect timers pending / value of the attempt
\* counter / polling intervals / polling ticks awaiting their responses
MaxSockets == 3
MaxTimers == 2
MaxAttempts == 8
MaxPolls == 2
MaxPulls == 1
\* the same for the all-attempts-fail specification, where the chain of
\* reconnects has to be able to run up to the fallback
LiveMaxSockets == 9
LiveMaxTimers == 8
\* distinct message contents an update can carry
MaxVer == 2

(* ------------------------- program constants --------------------------- *)
maxDelay == 30000
maxRetries == 5
fallbackAfter == 6
baseDelay == 1000
stepDelay == 3000

VARIABLES
    variant,       \* which rewrite of the page script runs
    ioThrows,      \* io() throws (the socket.io client is not loaded)
    initPc,        \* position of VotingAnalyticsApp.init()
    loadTimeout,   \* the 15 s initial-load timer: "armed", "fired", "cleared"
    initialized,   \* app.initialized / app.initialDataLoaded
    loading,       \* loading overlay visible
    mainView,      \* "dashboard", or "errorPage" once the view was replaced
    errorNotice,   \* an initialization error notice has been shown
    status,        \* text of the connection status indicator
    socket,        \* state of this.socket: "none", "pending", "up", "down"
    old,           \* superseded sockets still alive, counted per state
    retries,       \* this.retries / this.reconnectAttempts
    timers,        \* pending setTimeout(() => this.connect(), delay)
    polls,         \* setInterval polling timers created by the fallback
    pulls,         \* polling ticks whose requests are still pending
    simTimer,      \* top-level setTimeout(updateStatus('connected'), 3000)
    ev,            \* name of the handler that ran last
    emitted,       \* what that handler emitted on this.socket
    initErrRan,    \* whether that handler invoked the initialization error handler
    delays,        \* delays scheduled since the last 'connect' event
    failsBefore,   \* failures before the 'connect' event just handled, else 0
    everConnected, \* a 'connect' event has been handled
    store,         \* the stored and displayed election data
    appliedAs,     \* how the update just handled was applied: "initial", "incremental"
    anyUpdate,     \* an update message has been handled
    msg,           \* the update the last handler was handed, else NoMsg
    tick,          \* the polling tick just settled: pulls fulfilled, pulls applied
    toast,         \* the handler that ran last showed an "API error" toast
    featureFailed, \* the feature fetch init() just awaited failed
    req,           \* a call of APIService.request (retrying variant)
    search,        \* the search box: debounce timer, clock, searches run
    theme,         \* ThemeManager and the 'theme' item of localStorage
    feed,          \* the transaction feed, newest entry first
    rotation,      \* candidate rotation: the list, the interval timers, the window shown
    picker,        \* the search results list and its keyboard highlight
    poller         \* the ticks of one polling interval: issued, pending, applied

vars == <<variant, ioThrows, initPc, loadTimeout, initialized, loading, mainView,
          errorNotice, status, socket, old, retries, timers, polls, pulls,
          simTimer, ev, emitted, initErrRan, delays, failsBefore,
          everConnected, store, appliedAs, anyUpdate, msg, tick, toast,
          featureFailed, req, search, theme,
          feed,
          rotation,
          picker,
          poller>>

\* state of the components beside the live-update channel
sideVars == <<req, search, theme, feed, rotation, picker, poller>>

\* the components beside the one a specification is about
besideRequest == <<search, theme, feed, rotation, picker, poller>>

besideSearch == <<req, theme, feed, rotation, picker, poller>>

besideTheme == <<req, search, feed, rotation, picker, poller>>

besidePoller == <<req, search, theme, feed, rotation, picker>>

besidePicker == <<req, search, theme, feed, rotation, poller>>

besideRotation == <<req, search, theme, feed, picker, poller>>

besideFeed == <<req, search, theme, rotation, picker, poller>>

\* the live-update channel and the app it feeds
pageVars == <<variant, ioThrows, initPc, loadTimeout, initialized, loading,
              mainView, errorNotice, status, socket, old, retries, timers, polls,
              pulls, simTimer, ev, emitted, initErrRan, delays, failsBefore,
              everConnected, store, appliedAs, anyUpdate, msg, tick, toast,
              featureFailed>>

appVars == <<initialized, loading, mainView, errorNotice, loadTimeout>>

Min(a, b) == IF a <= b THEN a ELSE b

Pow2(n) == 2 ^ n

\* a field holding JavaScript's undefined
Undefined == -1

\* an update payload {election_data, ai_insights, analytics}: which parts it
\* carries.  Every part present carries the content numbered v: the
\* candidates list v, current_turnout v, the insights list v (v entries), and
\* in analytics the candidates with v votes in total and v insights.
AllPayloads ==
    {p \in [v : 1..MaxVer, election : BOOLEAN, candidates : BOOLEAN,
            turnout : BOOLEAN, insights : BOOLEAN, analytics : BOOLEAN,
            aCandidates : BOOLEAN, aInsights : BOOLEAN] :
        /\ (p.candidates \/ p.turnout) => p.election
        /\ (p.aCandidates \/ p.aInsights) => p.analytics}

NoMsg == [v |-> 0, election |-> FALSE, candidates |-> FALSE, turnout |-> FALSE,
          insights |-> FALSE, analytics |-> FALSE, aCandidates |-> FALSE,
          aInsights |-> FALSE]

\* the payloads of the transport specifications: a complete message, and
\* the same message without election_data
Payloads ==
    {p \in AllPayloads :
        /\ p.v = 1
        /\ p.candidates = p.election /\ p.turnout = p.election
        /\ p.insights /\ p.analytics /\ p.aCandidates /\ p.aInsights}


NoSockets == [pending |-> 0, up |-> 0, down |-> 0]

SocketCount == (IF socket = "none" THEN 0 ELSE 1) + old.pending + old.up + old.down

(* ------------------------ WebSocketManager ----------------------------- *)

\* the manager's mutable state, as the handlers below transform it;
\* sched lists the delays of the reconnect timers the handler set
Mgr == [retries |-> retries, timers |-> timers, polls |-> polls,
        status |-> status, sched |-> <<>>]

ReconnectDelay_NoCap(var, n) ==
    IF var = "yatish" THEN Pow2(n) * baseDelay ELSE stepDelay * n

\* delay of the reconnect timer set when the counter has just become n
ReconnectDelay(var, n) ==
    IF var = "yatish" THEN Min(maxDelay, Pow2(n) * baseDelay) ELSE stepDelay * n

fallback(m) == [m EXCEPT !.polls = @ + 1]

handleConnectionError_NoFallback(var, m) ==
    IF var = "yatish"
    THEN [m EXCEPT !.status = "connecting", !.retries = @ + 1, !.timers = @ + 1,
                   !.sched = <<ReconnectDelay(var, m.retries + 1)>>]
    ELSE IF m.retries < maxRetries
         THEN [m EXCEPT !.status = IF var = "script" THEN @ ELSE "connecting",
                        !.retries = @ + 1, !.timers = @ + 1,
                        !.sched = <<ReconnectDelay(var, m.retries + 1)>>]
         ELSE [m EXCEPT !.status = "disconnected"]

handleConnectionError_Unbounded(var, m) ==
    [m EXCEPT !.status = IF var = "script" THEN @ ELSE "connecting",
              !.retries = @ + 1, !.timers = @ + 1,
              !.sched = <<ReconnectDelay(var, m.retries + 1)>>]

\* handleReconnect (script) / handleConnectionError (the other three); the
\* transient "Reconnecting..." toast of yatish leaves no state behind
handleConnectionError(var, m) ==
    IF var = "yatish"
    THEN LET n == m.retries + 1
             m1 == [m EXCEPT !.status = "connecting", !.retries = n,
                             !.timers = @ + 1,
                             !.sched = <<ReconnectDelay(var, n)>>]
         IN IF n > fallbackAfter THEN fallback(m1) ELSE m1
    ELSE IF m.retries < maxRetries
         THEN [m EXCEPT !.status = IF var = "script" THEN @ ELSE "connecting",
                        !.retries = @ + 1, !.timers = @ + 1,
                        !.sched = <<ReconnectDelay(var, m.retries + 1)>>]
         ELSE fallback([m EXCEPT !.status = "disconnected"])

onConnect_KeepRetries(m) == [m EXCEPT !.status = "connected"]

\* socket.on('connect')
onConnect(m) == [m EXCEPT !.status = "connected", !.retries = 0]

connectEmits_NoSnapshot(var) == <<"request_live_data">>

\* what the 'connect' handler emits on this.socket
connectEmits(var) ==
    IF var = "yatish"
    THEN <<"request_live_data", "request_3d_data", "request_blockchain_status">>
    ELSE <<"request_live_data", "request_3d_data">>

onDisconnect_Reconnect(var, m) == handleConnectionError(var, m)

\* socket.on('disconnect')
onDisconnect(var, m) == [m EXCEPT !.status = "disconnected"]

\* connect() when io() throws: fallback() in script, handleConnectionError()
\* in the other three
connectThrew(var, m) ==
    IF var = "script" THEN fallback(m) ELSE handleConnectionError(var, m)

WithinCaps(m, capT) ==
    /\ m.retries <= MaxAttempts
    /\ m.timers <= capT
    /\ m.polls <= MaxPolls

SetMgr(m) ==
    /\ retries' = m.retries
    /\ timers' = m.timers
    /\ polls' = m.polls
    /\ status' = m.status
    /\ delays' = delays \o m.sched

(* ------------------------ VotingAnalyticsApp --------------------------- *)

\* the app state the initialization handlers touch
App == [initialized |-> initialized, loading |-> loading, mainView |-> mainView,
        errorNotice |-> errorNotice, loadTimeout |-> loadTimeout]

\* handleError (script) / handleInitializationError (the other three),
\* without the status change the yatish and part0 versions also make
handleInitializationError(var, a) ==
    IF var = "part1"
    THEN [a EXCEPT !.loading = FALSE, !.mainView = "errorPage", !.errorNotice = TRUE]
    ELSE [a EXCEPT !.loading = FALSE, !.errorNotice = TRUE]

\* status after the initialization error handler
ErrStatus(var, s) == IF var \in {"yatish", "part0"} THEN "disconnected" ELSE s

\* handleInitialData throws after clearTimeout: part0 hands data.election_data
\* to processAnalyticsData, which dereferences it; yatish and part1 call
\* toLocaleString() on election_data.current_turnout
InitialDataThrows(var, p) ==
    \/ var = "part0" /\ ~p.election
    \/ var \in {"yatish", "part1"} /\ p.election /\ ~p.turnout

handleInitialData(var, a, p) ==
    IF a.initialized THEN a
    ELSE IF InitialDataThrows(var, p)
         THEN [a EXCEPT !.loadTimeout = IF @ = "armed" THEN "cleared" ELSE @]
         ELSE [a EXCEPT !.loadTimeout = IF @ = "armed" THEN "cleared" ELSE @,
                        !.loading = FALSE, !.initialized = TRUE]

\* handleVotingUpdate, as far as the initialization state goes
handleVotingUpdate(var, a, p) ==
    IF ~a.initialized THEN handleInitialData(var, a, p) ELSE a

(* --------------------- stored and displayed data ----------------------- *)

\* the fields as the constructors and the page leave them: candidates is
\* app.candidates / app.allCandidates (0 = the empty list), shown the
\* candidates in the charts, liveVoteCount the stored count, totalVotes,
\* insights and insightCount the #total-votes, insight panels and
\* #total-insights of the page (0 = as loaded)
DefaultStore_NullCandidates ==
    [candidates |-> Undefined, shown |-> 0, liveVoteCount |-> 0,
     totalVotes |-> 0, insights |-> 0, insightCount |-> 0]

DefaultStore ==
    [candidates |-> 0, shown |-> 0, liveVoteCount |-> 0,
     totalVotes |-> 0, insights |-> 0, insightCount |-> 0]

\* updateAnalytics: script.js is handed data.analytics and writes '0' for
\* what is absent from it; the other three are handed the whole message
updateAnalytics(var, s, p) ==
    IF var = "script"
    THEN [s EXCEPT !.totalVotes = IF p.aCandidates THEN p.v ELSE 0,
                   !.insightCount = IF p.aInsights THEN p.v ELSE 0]
    ELSE [s EXCEPT !.totalVotes = IF p.turnout THEN p.v ELSE @,
                   !.insightCount = IF p.insights THEN p.v ELSE @]

\* handleVotingUpdate past the initial-data branch: updateVotes (script) or
\* updateVoteDisplay, then the insights, then updateAnalytics
applyIncremental(var, s, p) ==
    LET s1 == IF ~p.election THEN s
              ELSE IF var = "script"
                   THEN [s EXCEPT !.liveVoteCount = IF p.turnout THEN p.v ELSE @]
                   ELSE [s EXCEPT !.shown = IF p.candidates THEN p.v ELSE @]
        s2 == IF p.insights THEN [s1 EXCEPT !.insights = p.v] ELSE s1
    IN IF p.analytics THEN updateAnalytics(var, s2, p) ELSE s2

\* processAnalyticsData(data) of yatish and part1, as far as it gets
processAnalyticsData(var, s, p) ==
    LET s1 == IF ~p.election THEN s
              ELSE IF p.turnout
                   THEN [s EXCEPT !.liveVoteCount = p.v, !.totalVotes = p.v]
                   ELSE [s EXCEPT !.liveVoteCount = Undefined]
        s2 == IF var = "part1" /\ p.analytics /\ p.insights
              THEN [s1 EXCEPT !.insightCount = p.v] ELSE s1
    IN IF p.election /\ ~p.turnout THEN s1
       ELSE IF p.insights THEN [s2 EXCEPT !.insights = p.v] ELSE s2

\* updateDashboard(data.analytics || {}, 'Overall') of script.js
updateDashboard(s, p) ==
    updateAnalytics("script",
                    [s EXCEPT !.shown = IF p.aCandidates THEN p.v ELSE @,
                              !.insights = IF p.aInsights THEN p.v ELSE @], p)

\* what handleInitialData writes, as far as it gets
applyInitialData(var, s, p) ==
    LET s1 == CASE var = "script" -> updateDashboard(s, p)
                [] var = "part0"  -> s
                [] OTHER          -> processAnalyticsData(var, s, p)
    IN IF InitialDataThrows(var, p) \/ ~p.candidates THEN s1
       ELSE [s1 EXCEPT !.candidates = p.v,
                       !.shown = IF var = "part1" THEN @ ELSE p.v]

\* the paths one message takes through handleVotingUpdate: script.js returns
\* after handleInitialData, the other three go on to the incremental part
pathsOfUpdate(var, a, p) ==
    IF a.initialized THEN <<"incremental">>
    ELSE IF InitialDataThrows(var, p) THEN <<>>
    ELSE IF var = "script" THEN <<"initial">>
    ELSE <<"initial", "incremental">>

\* the store after handleInitialData(data): if (this.initialized) return
handleInitialDataStore_NoGuard(var, a, s, p) == applyInitialData(var, s, p)

handleInitialDataStore(var, a, s, p) ==
    IF a.initialized THEN s ELSE applyInitialData(var, s, p)

\* the store after handleVotingUpdate(data)
storeAfterUpdate(var, a, s, p) ==
    IF a.initialized THEN applyIncremental(var, s, p)
    ELSE IF InitialDataThrows(var, p) \/ var = "script"
         THEN handleInitialDataStore(var, a, s, p)
         ELSE applyIncremental(var, handleInitialDataStore(var, a, s, p), p)

(* --------------------------- polling tick ------------------------------ *)

Pulls == {"analytics", "predictions", "transactions"}

\* the pulls whose result a tick hands on: yatish ignores the predictions
handledPulls(var) ==
    IF var = "yatish" THEN {"analytics", "transactions"} ELSE Pulls

\* the pulls a tick applies when exactly those in F were fulfilled
\* (Promise.allSettled); a throwing handleVotingUpdate ends the tick in
\* its catch
tickApplies(var, F, threw) ==
    IF threw THEN {} ELSE F \cap handledPulls(var)

\* APIService.request shows an "API error" toast when it gives up (yatish)
exhaustedToast(var) == var = "yatish"

NoTick == [fulfilled |-> {}, applied |-> {}, threw |-> FALSE]

\* init() ends in its catch: only the health check is awaited bare, the
\* feature loaders catch their own errors
InitAborts_AnyFailure(var, pc, ok) == ~ok

InitAborts(var, pc, ok) == pc = "health" /\ ~ok

SetData(var, a, s, p) ==
    /\ store' = storeAfterUpdate(var, a, s, p)
    /\ appliedAs' = pathsOfUpdate(var, a, p)
    /\ anyUpdate' = TRUE
    /\ msg' = p

(* ----------------- APIService.request (retrying variant) --------------- *)

requestMaxRetries == 5
requestMaxDelay == 30000
requestBase == 500

\* what a failed fetch throws: a non-ok status, a network error, a body
\* that is no JSON
Errors == {"HTTP 500", "HTTP 404", "network", "json"}

Endpoints == {"/api/health", "/api/analytics/enhanced", "/api/live/transactions"}

NoRequest == [pc |-> "idle", endpoint |-> "", attempt |-> 0, fetches |-> 0,
              waits |-> <<>>, lastErr |-> "", thrown |-> ""]

requestGivesUp_Late(attempt) == attempt > requestMaxRetries + 1

\* if (attempt > this.maxRetries) { toast; throw err }
requestGivesUp(attempt) == attempt > requestMaxRetries

\* Math.min(this.maxDelay, Math.pow(2, attempt) * 500)
requestDelay(attempt) == Min(requestMaxDelay, Pow2(attempt) * requestBase)

(* ------------------------------ search box ----------------------------- *)

\* bound: input events typed into the search box
MaxInputs == 4

\* bound: clock steps that make up the debounce delay
ClockSteps == 3

debounceDelay == 300

\* the grain of the clock
clockStep == debounceDelay \div ClockSteps

Queries == {"", "a", "ab"}

\* timers: the pending setTimeout callbacks, by id, with their age in ms;
\* handle: the id held by debounceTimeout / t; value: the input's text;
\* sinceInput: ms since the last input event; bursts: the runs of input
\* events less than 300 ms apart; runs: the searches run, each with its
\* query and the time since the last input event
NoSearch == [timers |-> {}, handle |-> 0, nextId |-> 1, value |-> "",
             sinceInput |-> 0, inputs |-> 0, bursts |-> 0, runs |-> <<>>]

\* clearTimeout(debounceTimeout)
clearDebounce_Never(ts, h) == ts

clearDebounce(ts, h) == {t \in ts : t.id # h}

(* --------------------------- transaction feed ------------------------- *)

\* bounds: distinct transaction hashes, new_transaction events delivered
MaxHashes == 6
MaxTxEvents == 7

\* while (feed.children.length > 5) feed.lastChild.remove()
feedLimit == 5

\* event.transaction is absent
NoTx == [tx |-> FALSE, hash |-> 0]

\* the payloads of 'new_transaction': with or without a transaction field
TxEvents == {NoTx} \cup [tx : {TRUE}, hash : 1..MaxHashes]

\* feed.querySelector(`[data-tx-hash="${tx.tx_hash}"]`)
inFeed(items, h) == \E i \in 1..Len(items) : items[i].hash = h

\* script.js adds the entry without looking for its hash in the feed
checksHash(var) == var # "script"

\* the feed after addTransactionToFeed(event) / handleNewTransaction(data);
\* an entry is the hash with the number n of the event that added it
addTransactionToFeed_NoTrim(var, items, e, n) ==
    IF ~e.tx THEN items
    ELSE IF checksHash(var) /\ inFeed(items, e.hash) THEN items
    ELSE <<[hash |-> e.hash, at |-> n]>> \o items

addTransactionToFeed(var, items, e, n) ==
    IF ~e.tx THEN items
    ELSE IF checksHash(var) /\ inFeed(items, e.hash) THEN items
    ELSE LET f == <<[hash |-> e.hash, at |-> n]>> \o items
         IN IF Len(f) > feedLimit THEN SubSeq(f, 1, feedLimit) ELSE f

\* items: the children of #transactionFeed, first child first; events: the
\* events delivered; last: the event just handled
NoFeed == [items |-> <<>>, events |-> 0, last |-> NoTx]

(* -------------------------- candidate rotation ------------------------ *)

\* bounds: candidates in the list, interval ticks, clicks on the cycle button
MaxCandidates == 7
MaxRotationTicks == 4
MaxCycleClicks == 2

\* this.rotationCount / this.candidateDisplayLimit
displayLimit == 5

\* the variants that rotate the candidates
Rotating == {"script", "part0", "part1"}

\* list.slice(a, b) of a list of length n, as the positions (from 0) taken
slice(n, a, b) ==
    LET e == Min(b, n)
    IN IF a < e THEN [i \in 1..(e - a) |-> a + i - 1] ELSE <<>>

\* the chunk displayed from position start: slice(start, start + 5), filled
\* up from the head of the list when it came out short
chunk(n, start) ==
    LET c == slice(n, start, start + displayLimit)
    IN IF Len(c) < displayLimit
       THEN c \o slice(n, 0, displayLimit - Len(c))
       ELSE c

\* rotateCandidates() / startCandidateRotation(): clearInterval of the
\* handle held, then a new setInterval
startCandidateRotation_NoClear(r) ==
    [r EXCEPT !.active = @ \cup {r.nextId}, !.handle = r.nextId,
              !.nextId = @ + 1]

startCandidateRotation(r) ==
    [r EXCEPT !.active = (@ \ {r.handle}) \cup {r.nextId}, !.handle = r.nextId,
              !.nextId = @ + 1]

\* the next window: script.js shows the window at rotationIndex and then
\* advances the index without reducing it; part_000 and part_001 advance
\* currentCandidateIndex modulo the length and show the window there
showNext(var, r) ==
    IF var = "script"
    THEN [r EXCEPT !.start = r.index % r.n,
                   !.shown = chunk(r.n, r.index % r.n),
                   !.index = @ + displayLimit]
    ELSE LET i == (r.index + displayLimit) % r.n
         IN [r EXCEPT !.start = i, !.shown = chunk(r.n, i), !.index = i]

\* the interval callback
rotationTick(var, r) ==
    IF r.n <= displayLimit
    THEN [r EXCEPT !.active = @ \ {r.handle}]
    ELSE showNext(var, r)

\* n: length of this.candidates / this.allCandidates; index: rotationIndex /
\* currentCandidateIndex; active: the interval timers running; handle: the
\* id held in rotationInterval / candidateRotationInterval (0 = null);
\* start, shown: the window last displayed; loaded: the candidates arrived;
\* ticks, clicks: interval callbacks and button clicks so far; op: the
\* step just taken
NoRotation == [n |-> 0, index |-> 0, active |-> {}, handle |-> 0, nextId |-> 1,
               start |-> 0, shown |-> <<>>, loaded |-> FALSE, ticks |-> 0,
               clicks |-> 0, op |-> "none"]

(* ------------------------ search result highlight --------------------- *)

\* bounds: results of one search, keys and searches handled
MaxResults == 3
MaxKeys == 5

Keys == {"ArrowDown", "ArrowUp", "Enter", "Escape"}

\* JavaScript's a % n, whose sign is that of a
jsRem(a, n) == IF a >= 0 THEN a % n ELSE 0 - ((0 - a) % n)

\* showResults / displaySearchResults ends with highlightIndex = -1
resetsHighlight(var) == var \in {"script", "part1"}

\* hideSearchResults() also empties the list
hideClearsItems(var) == var \in {"yatish", "part0"}

\* the "No results found." line carries the class search-result-item
emptyIsItem(var) == var # "script"

\* the Enter branch tests items[highlightedIndex] and its data-constituency
enterChecksItem(var) == var = "part1"

\* showResults(results) / displaySearchResults(results) with k results
displaySearchResults(var, pk, k) ==
    [pk EXCEPT !.items = IF k > 0 THEN k ELSE IF emptyIsItem(var) THEN 1 ELSE 0,
               !.placeholder = (k = 0 /\ emptyIsItem(var)),
               !.index = IF resetsHighlight(var) THEN -1 ELSE @]

\* hideResults() / hideSearchResults()
hideSearchResults(var, pk) ==
    IF hideClearsItems(var)
    THEN [pk EXCEPT !.items = 0, !.placeholder = FALSE]
    ELSE pk

\* what Enter hands to select / selectConstituency: "result" an entry of
\* the list, "placeholder" the "No results found." line (undefined name),
\* "missing" items[highlightedIndex] is undefined (TypeError), "none"
\* nothing from the list
enterPicks(var, pk) ==
    IF pk.index < 0 THEN "none"
    ELSE IF pk.index >= pk.items
         THEN IF enterChecksItem(var) THEN "none" ELSE "missing"
    ELSE IF pk.placeholder
         THEN IF enterChecksItem(var) THEN "none" ELSE "placeholder"
    ELSE "result"

\* the keydown listener of the search input
keydown(var, pk, key) ==
    IF pk.items = 0 /\ (var # "part1" \/ key \in {"ArrowDown", "ArrowUp"})
    THEN pk
    ELSE CASE key = "ArrowDown" ->
                [pk EXCEPT !.index = jsRem(pk.index + 1, pk.items)]
           [] key = "ArrowUp" ->
                [pk EXCEPT !.index = jsRem(pk.index - 1 + pk.items, pk.items)]
           [] key = "Enter" ->
                LET x == enterPicks(var, pk)
                IN IF x \in {"result", "placeholder"}
                   THEN [hideSearchResults(var, pk) EXCEPT !.picked = x]
                   ELSE [pk EXCEPT !.picked = x]
           [] OTHER -> hideSearchResults(var, pk)

\* items: the .search-result-item elements of the list; placeholder: the
\* one item is the "No results found." line; index: highlightIndex /
\* highlightedIndex; picked: what the last Enter selected; steps: events
\* handled; op: the event just handled
NoPicker == [items |-> 0, placeholder |-> FALSE, index |-> -1, picked |-> "none",
             steps |-> 0, op |-> "none"]

(* ------------------------- ticks of one interval ---------------------- *)

\* bound: ticks of the polling interval
MaxPollTicks == 4

\* the ticks whose requests are pending once tick k has issued its own:
\* the callback starts the three requests whatever is still pending
tickIssues(pending, k) == pending \cup {k}

\* issued: ticks so far; pending: the ticks awaiting Promise.allSettled;
\* applied: the ticks whose analytics result was handed to
\* handleVotingUpdate, in the order it was applied
NoPoller == [issued |-> 0, pending |-> {}, applied |-> <<>>]

(* ----------------------------- ThemeManager ---------------------------- *)

\* bound: clicks on the theme toggle and page reloads
MaxThemeOps == 5

\* localStorage.getItem('theme') of a key that was never set
NoItem == "none"

\* what the 'theme' item can hold when a page loads: nothing, or what a
\* toggle of an earlier page load stored
StoredThemes == {NoItem, "light", "dark"}

\* localStorage.getItem('theme') || 'light'
loadTheme(stored) == IF stored \in {NoItem, ""} THEN "light" ELSE stored

\* this.theme === 'light' ? 'dark' : 'light'
toggled(t) == IF t = "light" THEN "dark" ELSE "light"

\* toggle() / toggleTheme(): the theme and the stored item after a click
toggleTheme_NoSave(th) == [current |-> toggled(th.current), stored |-> th.stored]

toggleTheme(th) == [current |-> toggled(th.current), stored |-> toggled(th.current)]

\* loaded: the ThemeManager was constructed; current: this.theme /
\* this.currentTheme; stored: the 'theme' item; since: current and stored
\* after the construction and after each toggle of this page load;
\* log: the clicks and reloads so far
NoTheme == [loaded |-> FALSE, current |-> "light", stored |-> NoItem,
            since |-> <<>>, log |-> <<>>]

\* a handler that is handed no update and is no polling tick
IdleData ==
    /\ store' = store
    /\ anyUpdate' = anyUpdate
    /\ appliedAs' = <<>>
    /\ msg' = NoMsg
    /\ tick' = NoTick

SetApp(a) ==
    /\ initialized' = a.initialized
    /\ loading' = a.loading
    /\ mainView' = a.mainView
    /\ errorNotice' = a.errorNotice
    /\ loadTimeout' = a.loadTimeout

\* the awaits of init(), in order
InitSteps(var) ==
    CASE var = "script" -> <<"health", "constituencies", "historical",
                             "predictions", "heatmap">>
      [] var = "part1"  -> <<"health", "historical">>
      [] OTHER          -> <<"health">>

StepIndex(var, pc) == CHOOSE i \in 1..Len(InitSteps(var)) : InitSteps(var)[i] = pc

\* init() of script.js clears the load timer itself once connect() was called
initClearsTimeout(var) == var = "script"

Init ==
    /\ variant \in Variants
    /\ ioThrows \in BOOLEAN
    /\ initPc = "health"
    /\ loadTimeout = "armed"
    /\ initialized = FALSE
    /\ loading = TRUE
    /\ mainView = "dashboard"
    /\ errorNotice = FALSE
    /\ status = "initial"
    /\ socket = "none"
    /\ old = NoSockets
    /\ retries = 0
    /\ timers = 0
    /\ polls = 0
    /\ pulls = 0
    /\ simTimer = IF variant = "part1" THEN "none" ELSE "armed"
    /\ ev = "init"
    /\ emitted = <<>>
    /\ initErrRan = FALSE
    /\ delays = <<>>
    /\ failsBefore = 0
    /\ everConnected = FALSE
    /\ store = DefaultStore
    /\ appliedAs = <<>>
    /\ anyUpdate = FALSE
    /\ msg = NoMsg
    /\ tick = NoTick
    /\ toast = FALSE
    /\ featureFailed = FALSE
    /\ req = NoRequest
    /\ search = NoSearch
    /\ theme = NoTheme
    /\ feed = NoFeed
    /\ rotation = NoRotation
    /\ picker = NoPicker
    /\ poller = NoPoller

\* this.socket = io(...): the previous socket stays alive, superseded
NewSocket ==
    /\ socket' = "pending"
    /\ old' = IF socket = "none" THEN old ELSE [old EXCEPT ![socket] = @ + 1]

\* WebSocketManager.connect(), entered with the manager state m
connect(m, capS, capT) ==
    IF ioThrows
    THEN /\ WithinCaps(connectThrew(variant, m), capT)
         /\ SetMgr(connectThrew(variant, m))
         /\ UNCHANGED <<socket, old>>
    ELSE /\ SocketCount < capS
         /\ NewSocket
         /\ SetMgr(m)

\* an await of init() settles
InitStep(ok, capS, capT) ==
    /\ initPc \notin {"done", "failed"}
    /\ LET i == StepIndex(variant, initPc)
           last == i = Len(InitSteps(variant))
       IN IF InitAborts(variant, initPc, ok)
          THEN \* catch: error handler; yatish, part0, part1 clear the timer
               LET a1 == handleInitializationError(variant, App)
                   a2 == IF variant = "script" THEN a1
                         ELSE [a1 EXCEPT !.loadTimeout =
                                  IF @ = "armed" THEN "cleared" ELSE @]
               IN /\ SetApp(a2)
                  /\ SetMgr([Mgr EXCEPT !.status = ErrStatus(variant, @)])
                  /\ initPc' = "failed"
                  /\ initErrRan' = TRUE
                  /\ ev' = "init_error"
                  /\ UNCHANGED <<socket, old>>
          ELSE IF ~last
               THEN \* the feature loaders catch their own errors
                    /\ initPc' = InitSteps(variant)[i + 1]
                    /\ ev' = "init_step"
                    /\ initErrRan' = FALSE
                    /\ UNCHANGED <<socket, old, retries, timers, polls, status,
                                   delays, initialized, loading, mainView,
                                   errorNotice, loadTimeout>>
               ELSE /\ connect(Mgr, capS, capT)
                    /\ initPc' = "done"
                    /\ ev' = "init_connect"
                    /\ initErrRan' = FALSE
                    /\ IF initClearsTimeout(variant)
                       THEN SetApp([App EXCEPT !.loading = FALSE,
                                       !.loadTimeout = IF @ = "armed" THEN "cleared" ELSE @])
                       ELSE SetApp(App)
    /\ emitted' = <<>>
    /\ failsBefore' = 0
    /\ featureFailed' = (~ok /\ initPc # "health")
    /\ toast' = (~ok /\ exhaustedToast(variant))
    /\ IdleData
    /\ UNCHANGED <<variant, ioThrows, pulls, simTimer, everConnected, sideVars>>

\* the 15 s timer of init() fires
LoadTimeoutFires ==
    /\ loadTimeout = "armed"
    /\ IF ~initialized
       THEN /\ SetApp([handleInitializationError(variant, App)
                          EXCEPT !.loadTimeout = "fired"])
            /\ status' = ErrStatus(variant, status)
            /\ initErrRan' = TRUE
       ELSE /\ SetApp([App EXCEPT !.loadTimeout = "fired"])
            /\ status' = status
            /\ initErrRan' = FALSE
    /\ ev' = "load_timeout"
    /\ emitted' = <<>>
    /\ failsBefore' = 0
    /\ IdleData
    /\ toast' = FALSE
    /\ featureFailed' = FALSE
    /\ UNCHANGED sideVars
    /\ UNCHANGED <<variant, ioThrows, initPc, socket, old, retries, timers, polls, pulls,
                   simTimer, delays, everConnected>>

\* the top-level setTimeout(() => updateStatus('connected'), 3000)
SimulatedConnected ==
    /\ simTimer = "armed"
    /\ simTimer' = "fired"
    /\ status' = "connected"
    /\ ev' = "sim_connected"
    /\ emitted' = <<>>
    /\ failsBefore' = 0
    /\ initErrRan' = FALSE
    /\ IdleData
    /\ toast' = FALSE
    /\ featureFailed' = FALSE
    /\ UNCHANGED sideVars
    /\ UNCHANGED <<variant, ioThrows, initPc, appVars, socket, old, retries, timers,
                   polls, pulls, delays, everConnected>>

\* a reconnect timer fires: () => this.connect()
ReconnectTimerFires(capS, capT) ==
    /\ timers > 0
    /\ connect([Mgr EXCEPT !.timers = @ - 1], capS, capT)
    /\ ev' = "reconnect_timer"
    /\ emitted' = <<>>
    /\ failsBefore' = 0
    /\ initErrRan' = FALSE
    /\ IdleData
    /\ toast' = FALSE
    /\ featureFailed' = FALSE
    /\ UNCHANGED sideVars
    /\ UNCHANGED <<variant, ioThrows, initPc, appVars, pulls, simTimer,
                   everConnected>>

\* the socket `src` ("cur" = this.socket, otherwise a superseded socket in
\* state `from`) goes from state `from` to state `to`
SockMove(src, from, to) ==
    IF src = "cur"
    THEN /\ socket = from
         /\ socket' = to
         /\ old' = old
    ELSE /\ old[from] > 0
         /\ old' = [old EXCEPT ![from] = @ - 1, ![to] = @ + 1]
         /\ socket' = socket

Sources == {"cur", "old"}

NotUp == {"pending", "down"}

\* socket.on('connect_error'): the attempt of a socket that is not
\* connected failed or timed out
ConnectError(src, from, capT) ==
    /\ from \in NotUp
    /\ SockMove(src, from, "down")
    /\ WithinCaps(handleConnectionError(variant, Mgr), capT)
    /\ LET m == handleConnectionError(variant, Mgr)
       IN IF variant = "part1"
          THEN \* part_001 also calls app.handleInitializationError(error)
               /\ SetMgr(m)
               /\ SetApp(handleInitializationError(variant, App))
               /\ initErrRan' = TRUE
          ELSE /\ SetMgr(m)
               /\ SetApp(App)
               /\ initErrRan' = FALSE
    /\ ev' = "connect_error"
    /\ emitted' = <<>>
    /\ failsBefore' = 0
    /\ IdleData
    /\ toast' = FALSE
    /\ featureFailed' = FALSE
    /\ UNCHANGED sideVars
    /\ UNCHANGED <<variant, ioThrows, initPc, pulls, simTimer, everConnected>>

\* socket.on('connect')
ConnectEvent(src, from) ==
    /\ from \in NotUp
    /\ SockMove(src, from, "up")
    /\ retries' = onConnect(Mgr).retries
    /\ status' = onConnect(Mgr).status
    /\ emitted' = connectEmits(variant)
    /\ ev' = "connect"
    /\ initErrRan' = FALSE
    /\ failsBefore' = Len(delays)
    /\ delays' = <<>>
    /\ everConnected' = TRUE
    /\ IdleData
    /\ toast' = FALSE
    /\ featureFailed' = FALSE
    /\ UNCHANGED sideVars
    /\ UNCHANGED <<variant, ioThrows, initPc, appVars, timers, polls, pulls, simTimer>>

\* socket.on('disconnect'): an established connection dropped
DisconnectEvent(src, capT) ==
    /\ SockMove(src, "up", "down")
    /\ WithinCaps(onDisconnect(variant, Mgr), capT)
    /\ SetMgr(onDisconnect(variant, Mgr))
    /\ ev' = "disconnect"
    /\ emitted' = <<>>
    /\ failsBefore' = 0
    /\ initErrRan' = FALSE
    /\ IdleData
    /\ toast' = FALSE
    /\ featureFailed' = FALSE
    /\ UNCHANGED sideVars
    /\ UNCHANGED <<variant, ioThrows, initPc, appVars, pulls, simTimer,
                   everConnected>>

\* socket.on('enhanced_voting_update') on a connected socket
VotingUpdate(src, p) ==
    /\ SockMove(src, "up", "up")
    /\ SetApp(handleVotingUpdate(variant, App, p))
    /\ ev' = "voting_update"
    /\ emitted' = <<>>
    /\ failsBefore' = 0
    /\ initErrRan' = FALSE
    /\ SetData(variant, App, store, p)
    /\ tick' = NoTick
    /\ toast' = FALSE
    /\ featureFailed' = FALSE
    /\ UNCHANGED sideVars
    /\ UNCHANGED <<variant, ioThrows, initPc, retries, timers, polls, pulls, status,
                   simTimer, delays, everConnected>>

\* a tick of the fallback setInterval: the three requests are issued
PollTick ==
    /\ polls > 0
    /\ pulls < MaxPulls
    /\ pulls' = pulls + 1
    /\ ev' = "poll_tick"
    /\ emitted' = <<>>
    /\ failsBefore' = 0
    /\ initErrRan' = FALSE
    /\ IdleData
    /\ toast' = FALSE
    /\ featureFailed' = FALSE
    /\ UNCHANGED sideVars
    /\ UNCHANGED <<variant, ioThrows, initPc, appVars, socket, old, retries, timers,
                   polls, status, simTimer, delays, everConnected>>

\* Promise.allSettled of a tick settles: the pulls in F were fulfilled, the
\* analytics pull with payload p, the others rejected
PollSettles(F, p) ==
    /\ pulls > 0
    /\ pulls' = pulls - 1
    /\ LET threw == /\ "analytics" \in F
                    /\ ~initialized
                    /\ InitialDataThrows(variant, p)
       IN /\ IF "analytics" \in F
             THEN /\ SetApp(handleVotingUpdate(variant, App, p))
                  /\ SetData(variant, App, store, p)
             ELSE /\ SetApp(App)
                  /\ store' = store
                  /\ anyUpdate' = anyUpdate
                  /\ appliedAs' = <<>>
                  /\ msg' = NoMsg
          /\ tick' = [fulfilled |-> F,
                      applied |-> tickApplies(variant, F, threw),
                      threw |-> threw]
    /\ toast' = (F # Pulls /\ exhaustedToast(variant))
    /\ ev' = IF "analytics" \in F THEN "poll_applied" ELSE "poll_failed"
    /\ emitted' = <<>>
    /\ failsBefore' = 0
    /\ initErrRan' = FALSE
    /\ UNCHANGED <<variant, ioThrows, initPc, socket, old, retries, timers, polls,
                   status, simTimer, delays, everConnected, sideVars>>
    /\ featureFailed' = FALSE

Next ==
    \/ \E ok \in BOOLEAN : InitStep(ok, MaxSockets, MaxTimers)
    \/ LoadTimeoutFires
    \/ SimulatedConnected
    \/ ReconnectTimerFires(MaxSockets, MaxTimers)
    \/ \E src \in Sources, from \in NotUp : ConnectError(src, from, MaxTimers)
    \/ \E src \in Sources, from \in NotUp : ConnectEvent(src, from)
    \/ \E src \in Sources : DisconnectEvent(src, MaxTimers)
    \/ \E src \in Sources, p \in Payloads : VotingUpdate(src, p)
    \/ PollTick
    \/ \E F \in SUBSET Pulls, p \in Payloads : PollSettles(F, p)

Spec == Init /\ [][Next]_vars

(* --------------- every connection attempt fails ------------------------ *)

\* the page with a transport on which no attempt ever succeeds: no
\* 'connect', hence no 'disconnect' and no pushed update; the pulls of a
\* tick are all fulfilled or all rejected
AllOrNone == {Pulls, {}}

NextAllFail ==
    \/ \E ok \in BOOLEAN : InitStep(ok, LiveMaxSockets, LiveMaxTimers)
    \/ LoadTimeoutFires
    \/ SimulatedConnected
    \/ ReconnectTimerFires(LiveMaxSockets, LiveMaxTimers)
    \/ \E src \in Sources, from \in NotUp : ConnectError(src, from, LiveMaxTimers)
    \/ PollTick
    \/ \E F \in AllOrNone, p \in Payloads : PollSettles(F, p)

\* timers fire, every attempt resolves (the transport's 20 s timeout), and
\* every request settles
FailSpec ==
    /\ Init
    /\ [][NextAllFail]_vars
    /\ WF_vars(ReconnectTimerFires(LiveMaxSockets, LiveMaxTimers))
    /\ WF_vars(\E src \in Sources, from \in NotUp : ConnectError(src, from, LiveMaxTimers))
    /\ WF_vars(PollTick)
    /\ WF_vars(\E F \in AllOrNone, p \in Payloads : PollSettles(F, p))

\* the same transport, with every outcome of the three pulls of a tick
NextPolling ==
    \/ \E ok \in BOOLEAN : InitStep(ok, LiveMaxSockets, LiveMaxTimers)
    \/ LoadTimeoutFires
    \/ SimulatedConnected
    \/ ReconnectTimerFires(LiveMaxSockets, LiveMaxTimers)
    \/ \E src \in Sources, from \in NotUp : ConnectError(src, from, LiveMaxTimers)
    \/ PollTick
    \/ \E F \in SUBSET Pulls, p \in Payloads : PollSettles(F, p)

PollSpec == Init /\ [][NextPolling]_vars

(* ---------------- failed attempts and connections ---------------------- *)

\* the run of failed attempts up to the bound, with attempts that succeed
\* at any point of it
NextReconnect ==
    \/ \E ok \in BOOLEAN : InitStep(ok, LiveMaxSockets, LiveMaxTimers)
    \/ ReconnectTimerFires(LiveMaxSockets, LiveMaxTimers)
    \/ \E src \in Sources, from \in NotUp : ConnectError(src, from, LiveMaxTimers)
    \/ \E src \in Sources, from \in NotUp : ConnectEvent(src, from)

ReconnectSpec == Init /\ [][NextReconnect]_vars

(* ------------------- a connection that stays up ------------------------ *)

\* the page on a transport whose first attempt succeeds and which then
\* pushes updates of every shape
NextData ==
    \/ \E ok \in BOOLEAN : InitStep(ok, 1, MaxTimers)
    \/ \E from \in NotUp : ConnectEvent("cur", from)
    \/ \E p \in AllPayloads : VotingUpdate("cur", p)

DataSpec == Init /\ [][NextData]_vars

(* ------------------------- APIService.request -------------------------- *)

\* request(endpoint) is called: attempt = 0 and the first fetch is issued
RequestStart(ep) ==
    /\ variant = "yatish"
    /\ req.pc \in {"idle", "returned", "rejected"}
    /\ req' = [NoRequest EXCEPT !.pc = "fetching", !.endpoint = ep, !.fetches = 1]
    /\ UNCHANGED <<pageVars, besideRequest>>

\* the fetch of the current attempt settles: with a JSON body, or failing
\* with e (the catch block)
FetchSettles(ok, e) ==
    /\ req.pc = "fetching"
    /\ IF ok
       THEN req' = [req EXCEPT !.pc = "returned"]
       ELSE LET n == req.attempt + 1
            IN IF requestGivesUp(n)
               THEN req' = [req EXCEPT !.pc = "rejected", !.attempt = n,
                                       !.lastErr = e, !.thrown = e]
               ELSE req' = [req EXCEPT !.pc = "waiting", !.attempt = n,
                                       !.lastErr = e,
                                       !.waits = Append(@, requestDelay(n))]
    /\ UNCHANGED <<pageVars, besideRequest>>

\* the delay before a retry elapses: while (attempt <= this.maxRetries)
\* fetches again, and past the loop the function returns undefined
WaitElapses ==
    /\ req.pc = "waiting"
    /\ IF req.attempt <= requestMaxRetries
       THEN req' = [req EXCEPT !.pc = "fetching", !.fetches = @ + 1]
       ELSE req' = [req EXCEPT !.pc = "returned"]
    /\ UNCHANGED <<pageVars, besideRequest>>

NextRequest ==
    \/ \E ep \in Endpoints : RequestStart(ep)
    \/ \E ok \in BOOLEAN, e \in Errors : FetchSettles(ok, e)
    \/ WaitElapses

\* every fetch settles and every delay elapses
RequestSpec ==
    /\ Init
    /\ [][NextRequest]_vars
    /\ WF_vars(\E ok \in BOOLEAN, e \in Errors : FetchSettles(ok, e))
    /\ WF_vars(WaitElapses)

(* ------------------------------ search box ----------------------------- *)

\* an 'input' event: clearTimeout(t); t = setTimeout(search, 300)
SearchInput(q) ==
    /\ search.inputs < MaxInputs
    /\ search' = [search EXCEPT
                    !.timers = clearDebounce(@, search.handle)
                                 \cup {[id |-> search.nextId, age |-> 0]},
                    !.handle = search.nextId,
                    !.nextId = @ + 1,
                    !.value = q,
                    !.bursts = IF search.inputs = 0 \/ search.sinceInput >= debounceDelay
                               THEN @ + 1 ELSE @,
                    !.sinceInput = 0,
                    !.inputs = @ + 1]
    /\ UNCHANGED <<pageVars, besideSearch>>

\* time passes; a timer that is due fires before the clock moves on
SearchClock ==
    /\ search.timers # {}
    /\ \A t \in search.timers : t.age < debounceDelay
    /\ search' = [search EXCEPT
                    !.timers = {[t EXCEPT !.age = @ + clockStep] : t \in @},
                    !.sinceInput = Min(debounceDelay, @ + clockStep)]
    /\ UNCHANGED <<pageVars, besideSearch>>

\* a debounce timer fires: () => this.search(e.target.value)
DebounceFires ==
    /\ \E t \in search.timers :
          /\ t.age >= debounceDelay
          /\ search' = [search EXCEPT
                          !.timers = @ \ {t},
                          !.runs = Append(@, [query |-> search.value,
                                              sinceInput |-> search.sinceInput])]
    /\ UNCHANGED <<pageVars, besideSearch>>

NextSearch ==
    \/ \E q \in Queries : SearchInput(q)
    \/ SearchClock
    \/ DebounceFires

SearchSpec == Init /\ [][NextSearch]_vars

(* --------------------------- transaction feed ------------------------- *)

\* socket.on('new_transaction'): handleNewTransaction(data)
NewTransaction(e) ==
    /\ feed.events < MaxTxEvents
    /\ feed' = [items |-> addTransactionToFeed(variant, feed.items, e,
                                                feed.events + 1),
                events |-> feed.events + 1,
                last |-> e]
    /\ UNCHANGED <<pageVars, besideFeed>>

NextFeed == \E e \in TxEvents : NewTransaction(e)

FeedSpec == Init /\ [][NextFeed]_vars

(* -------------------------- candidate rotation ------------------------ *)

\* handleInitialData with election_data.candidates of length n: the list
\* is stored and the rotation started
CandidatesLoaded(n) ==
    /\ variant \in Rotating
    /\ ~rotation.loaded
    /\ rotation' = [startCandidateRotation([rotation EXCEPT !.n = n])
                      EXCEPT !.loaded = TRUE, !.op = "start"]
    /\ UNCHANGED <<pageVars, besideRotation>>

\* a tick of the rotation interval id
RotationTick(id) ==
    /\ id \in rotation.active
    /\ rotation.ticks < MaxRotationTicks
    /\ rotation' = [rotationTick(variant, rotation)
                      EXCEPT !.ticks = @ + 1, !.op = "tick"]
    /\ UNCHANGED <<pageVars, besideRotation>>

\* a click on the cycle button: script.js starts the rotation again,
\* part_000 and part_001 show the next window (cycleCandidates)
CycleClick ==
    /\ variant \in Rotating
    /\ rotation.clicks < MaxCycleClicks
    /\ rotation' =
         [(IF variant = "script" THEN startCandidateRotation(rotation)
           ELSE IF rotation.n <= displayLimit THEN rotation
           ELSE showNext(variant, rotation))
          EXCEPT !.clicks = @ + 1, !.op = "click"]
    /\ UNCHANGED <<pageVars, besideRotation>>

NextRotation ==
    \/ \E n \in 0..MaxCandidates : CandidatesLoaded(n)
    \/ \E id \in 1..(MaxCycleClicks + 2) : RotationTick(id)
    \/ CycleClick

RotationSpec == Init /\ [][NextRotation]_vars

(* ------------------------ search result highlight --------------------- *)

\* a search with k results is displayed
ShowResults(k) ==
    /\ picker.steps < MaxKeys
    /\ picker' = [displaySearchResults(variant, picker, k)
                    EXCEPT !.picked = "none", !.steps = @ + 1, !.op = "show"]
    /\ UNCHANGED <<pageVars, besidePicker>>

\* a search with a query of fewer than 2 characters hides the list
HideResults ==
    /\ picker.steps < MaxKeys
    /\ picker' = [hideSearchResults(variant, picker)
                    EXCEPT !.picked = "none", !.steps = @ + 1, !.op = "hide"]
    /\ UNCHANGED <<pageVars, besidePicker>>

\* a key is pressed in the search input
KeyDown(key) ==
    /\ picker.steps < MaxKeys
    /\ picker' = [keydown(variant, [picker EXCEPT !.picked = "none"], key)
                    EXCEPT !.steps = @ + 1, !.op = key]
    /\ UNCHANGED <<pageVars, besidePicker>>

NextPicker ==
    \/ \E k \in 0..MaxResults : ShowResults(k)
    \/ HideResults
    \/ \E key \in Keys : KeyDown(key)

PickerSpec == Init /\ [][NextPicker]_vars

(* ------------------------- ticks of one interval ---------------------- *)

\* the interval fires, 10 s after the previous tick: the requests of tick
\* issued + 1 are started
IntervalTick ==
    /\ poller.issued < MaxPollTicks
    /\ poller' = [poller EXCEPT
                    !.issued = @ + 1,
                    !.pending = tickIssues(@, poller.issued + 1)]
    /\ UNCHANGED <<pageVars, besidePoller>>

\* Promise.allSettled of tick k settles, its requests having taken any
\* time (no timeout is set, and the retrying request of yatish waits up to
\* 31 s between its fetches); ok: the analytics pull was fulfilled
TickSettles(k, ok) ==
    /\ k \in poller.pending
    /\ poller' = [poller EXCEPT
                    !.pending = @ \ {k},
                    !.applied = IF ok THEN Append(@, k) ELSE @]
    /\ UNCHANGED <<pageVars, besidePoller>>

NextPoller ==
    \/ IntervalTick
    \/ \E k \in 1..MaxPollTicks, ok \in BOOLEAN : TickSettles(k, ok)

PollerSpec == Init /\ [][NextPoller]_vars

(* ----------------------------- theme toggle ---------------------------- *)

\* new ThemeManager() of the first page load, finding st in localStorage
ThemeConstruct(st) ==
    /\ ~theme.loaded
    /\ theme' = [theme EXCEPT
                   !.loaded = TRUE,
                   !.stored = st,
                   !.current = loadTheme(st),
                   !.since = <<[current |-> loadTheme(st), stored |-> st]>>]
    /\ UNCHANGED <<pageVars, besideTheme>>

\* a click on #themeToggle
ThemeToggle ==
    /\ theme.loaded
    /\ Len(theme.log) < MaxThemeOps
    /\ LET t == toggleTheme(theme)
       IN theme' = [theme EXCEPT
                      !.current = t.current,
                      !.stored = t.stored,
                      !.since = Append(@, t),
                      !.log = Append(@, "toggle")]
    /\ UNCHANGED <<pageVars, besideTheme>>

\* the page is loaded again: a new ThemeManager reads the item
ThemeReload ==
    /\ theme.loaded
    /\ Len(theme.log) < MaxThemeOps
    /\ theme' = [theme EXCEPT
                   !.current = loadTheme(theme.stored),
                   !.since = <<[current |-> loadTheme(theme.stored),
                                stored |-> theme.stored]>>,
                   !.log = Append(@, "reload")]
    /\ UNCHANGED <<pageVars, besideTheme>>

NextTheme ==
    \/ \E st \in StoredThemes : ThemeConstruct(st)
    \/ ThemeToggle
    \/ ThemeReload

ThemeSpec == Init /\ [][NextTheme]_vars

(* ------------------------------ claims --------------------------------- *)

Count(x, seq) == Cardinality({i \in DOMAIN seq : seq[i] = x})

\* an established connection drops in this step
Drop == (socket = "up" /\ socket' = "down") \/ (old.up > 0 /\ old'.up = old.up - 1)

\* C1 (as claimed): once polling fallback has been started, connect() never
\* creates another socket.
C1_NoConnectAfterFallback ==
    [][polls > 0 => SocketCount' = SocketCount]_vars

\* C2 (as claimed): connect() creates a socket only when no previously
\* created socket is still unresolved (pending, no event delivered yet).
C2_OneAttemptInFlight ==
    [][SocketCount' > SocketCount => (socket # "pending" /\ old.pending = 0)]_vars

\* C3: within a run of consecutive failures (no 'connect' in between) every
\* scheduled reconnect delay is at least the one scheduled before it, and no
\* scheduled delay exceeds maxDelay (30000 ms).
C3_DelaysMonotoneCapped ==
    \A k \in 1..Len(delays) :
        /\ delays[k] <= 30000
        /\ k > 1 => delays[k] >= delays[k - 1]

C3_Witness ==
    /\ variant = "yatish"
    /\ Len(delays) >= 6
    /\ delays[4] = 16000
    /\ delays[5] = 30000
    /\ delays[6] = 30000

C3_WitnessLinear ==
    /\ variant = "script"
    /\ delays = <<3000, 6000, 9000, 12000, 15000>>

C4_Expected == <<2000, 4000, 8000, 16000, 30000>>

\* C4 (as claimed): in src/yatish/script.js the delays of consecutive failed
\* attempts 1..5 are 2000, 4000, 8000, 16000, 30000 ms, and the 6th
\* consecutive failure is the one that starts polling fallback.
C4_DelaysAndSixthFallsBack ==
    (variant = "yatish" /\ ~ioThrows) =>
        /\ \A k \in 1..Min(5, Len(delays)) : delays[k] = C4_Expected[k]
        /\ Len(delays) >= 6 => polls > 0
        /\ (Len(delays) < 6 /\ ~everConnected) => polls = 0

\* C5: right after the 'connect' handler the attempt counter is 0, whatever
\* number of failures preceded, so the first failure of the next run is
\* scheduled with the first-attempt delay (2000 ms in yatish, 3000 ms in the
\* other three).
C5_ResetOnConnect ==
    /\ ev = "connect" => retries = 0
    /\ Len(delays) >= 1 => delays[1] = IF variant = "yatish" THEN 2000 ELSE 3000

C5_Witness ==
    /\ ev = "connect"
    /\ failsBefore >= 3
    /\ retries = 0

C7_NeverDead ==
    /\ [][ev' = "connect_error" => (timers' = timers + 1 \/ polls' = polls + 1)]_vars
    /\ [](initPc = "done" => <>(polls > 0))
    /\ [](polls > 0 => <>(ev = "poll_tick"))

C7_Witness ==
    /\ ev = "poll_tick"
    /\ polls > 0
    /\ ~everConnected
    /\ Len(delays) >= 5

\* C8: every handled 'connect' event emits request_live_data exactly once and
\* request_3d_data exactly once, and no other handler emits them.
C8_SnapshotRequestedOnConnect ==
    /\ ev = "connect" => /\ Count("request_live_data", emitted) = 1
                         /\ Count("request_3d_data", emitted) = 1
    /\ ev # "connect" => emitted = <<>>

C8_Witness ==
    /\ ev = "connect"
    /\ failsBefore > 0
    /\ old.down > 0
    /\ Count("request_live_data", emitted) = 1
    /\ Count("request_3d_data", emitted) = 1

\* C9 (as claimed): in script.js, yatish/script.js and part_001 the 15 s
\* initial-load timer is cancelled only by the arrival of initial data or by
\* an earlier initialization error.
C9_TimeoutOnlyClearedByDataOrError ==
    (variant \in {"script", "yatish", "part1"} /\ loadTimeout = "cleared")
        => (initialized \/ errorNotice)

\* C10 (as claimed): once initial data has been displayed, no connect_error,
\* disconnect or failed pull invokes the initialization error handler or
\* changes the rendered view.
C10_NoInitErrorAfterInitialData ==
    [][(initialized /\ ev' \in {"connect_error", "disconnect", "poll_failed"})
          => (~initErrRan' /\ mainView' = mainView)]_vars

\* an update message was handled in this step
Handled == msg'.v > 0 /\ ev' \in {"voting_update", "poll_applied"}

\* a payload lacking election_data or its candidates list
Malformed(p) == ~p.election \/ ~p.candidates

\* C11 (as claimed): in script.js, handling an update that lacks
\* election_data or its candidates list changes neither the candidate list,
\* nor the live vote count, nor the displayed totals, nor the initialized
\* flag.
C11_MalformedLeavesState ==
    [][(variant = "script" /\ Handled /\ Malformed(msg'))
          => /\ store'.candidates = store.candidates
             /\ store'.liveVoteCount = store.liveVoteCount
             /\ store'.totalVotes = store.totalVotes
             /\ initialized' = initialized]_vars

\* C12 (as claimed): in script.js, when an update is handled right after
\* another and carries no insights (neither ai_insights nor
\* analytics.ai_insights), the displayed insights and the insight count stay
\* those left by the first, and the turnout it carries becomes the live vote
\* count.
C12_InsightsKeptWhenAbsent ==
    [][(variant = "script" /\ Handled /\ msg.v > 0 /\ initialized
           /\ ~msg'.insights /\ ~msg'.aInsights)
          => /\ store'.insights = store.insights
             /\ store'.insightCount = store.insightCount
             /\ msg'.turnout => store'.liveVoteCount = msg'.v]_vars

\* C13 (as claimed): in yatish/script.js and part_000, one update message
\* takes at most one path through the handler: it is consumed as initial
\* data or applied as an incremental update, never both.
C13_AppliedAtMostOnce ==
    variant \in {"yatish", "part0"} => Len(appliedAs) <= 1

\* C14 (as claimed): an update delivered by a superseded socket (this.socket
\* is not the connected one) and a pull that settles while this.socket is
\* connected leave the stored data and the initialized flag as they were.
C14_StaleResultsDiscarded ==
    [][((ev' = "voting_update" /\ socket # "up")
          \/ (ev' = "poll_applied" /\ socket = "up"))
          => (store' = store /\ initialized' = initialized)]_vars

TransportHandlers == {"connect", "disconnect", "connect_error", "init_connect",
                      "reconnect_timer"}

\* C15 (as claimed): the status indicator and the attempt counter change
\* only in the WebSocketManager's handling of connect, disconnect,
\* connect_error and connect(), and the indicator shows "connected" only
\* after a 'connect' event has been handled.
C15_StatusOnlyFromTransport ==
    /\ [][(status' # status \/ retries' # retries)
            => ev' \in TransportHandlers]_vars
    /\ [](status = "connected" => everConnected)

PollEvents == {"poll_applied", "poll_failed"}

C17_ExhaustedPullSilent ==
    (variant = "yatish" /\ ev \in PollEvents /\ tick.fulfilled # Pulls)
        => (~toast /\ ~initErrRan /\ polls > 0)

\* C18: a call of the retrying request makes at most 6 fetches; the k-th
\* retry waits min(30000, 2^k * 500) ms; it returns on the first fetch that
\* succeeds and fetches no more; it rejects, with the error of the last
\* fetch, only after 6 failed fetches; and when every fetch settles every
\* call returns or rejects.
C18_RequestRetriesBounded ==
    /\ [](req.fetches <= 6)
    /\ [](\A k \in 1..Len(req.waits) : req.waits[k] = Min(30000, (2 ^ k) * 500))
    /\ [](req.pc = "returned" => req.fetches = Len(req.waits) + 1)
    /\ [](req.pc = "rejected"
            => (req.fetches = 6 /\ req.thrown # "" /\ req.thrown = req.lastErr))
    /\ [][req.pc \in {"returned", "rejected"} => req'.fetches <= 1]_vars
    /\ [](req.pc = "fetching" => <>(req.pc \in {"returned", "rejected"}))

C18_Witness ==
    /\ req.pc = "rejected"
    /\ req.fetches = 6
    /\ req.waits = <<1000, 2000, 4000, 8000, 16000>>
    /\ req.thrown = "HTTP 500"

C20_SearchDebounced ==
    /\ [](Cardinality(search.timers) <= 1)
    /\ [](\A k \in 1..Len(search.runs) : search.runs[k].sinceInput = 300)
    /\ [](Len(search.runs) <= search.bursts)
    /\ [][Len(search'.runs) > Len(search.runs)
            => search'.runs[Len(search'.runs)].query = search.value]_vars

C20_Witness ==
    /\ search.inputs = 3
    /\ search.bursts = 1
    /\ search.timers = {}
    /\ Len(search.runs) = 1
    /\ search.runs[1].query = "ab"

\* C21 (as stated): at startup the current theme is the stored 'theme'
\* value, or 'light' when nothing is stored; after every toggle the stored
\* value equals the current theme; two consecutive toggles restore the
\* original theme and the original stored value.
C21_ThemeConsistent_Stated ==
    theme.loaded =>
        /\ theme.since[1].current =
              (IF theme.since[1].stored = NoItem THEN "light"
               ELSE theme.since[1].stored)
        /\ \A i \in 2..Len(theme.since) :
              theme.since[i].stored = theme.since[i].current
        /\ \A i \in 1..Len(theme.since) :
              i + 2 <= Len(theme.since) => theme.since[i + 2] = theme.since[i]

\* C21 (amended): at startup the current theme is the stored 'theme' value,
\* or 'light' when nothing is stored; after every toggle the stored value
\* equals the current theme; two consecutive toggles restore the original
\* theme, and the original stored value when there was one (with nothing
\* stored at startup the item then holds 'light').
C21_ThemeConsistent ==
    theme.loaded =>
        /\ theme.since[1].current =
              (IF theme.since[1].stored = NoItem THEN "light"
               ELSE theme.since[1].stored)
        /\ theme.current = theme.since[Len(theme.since)].current
        /\ theme.stored = theme.since[Len(theme.since)].stored
        /\ \A i \in 2..Len(theme.since) :
              theme.since[i].stored = theme.since[i].current
        /\ \A i \in 1..Len(theme.since) :
              i + 2 <= Len(theme.since) =>
                /\ theme.since[i + 2].current = theme.since[i].current
                /\ theme.since[i + 2].stored =
                      (IF theme.since[i].stored = NoItem THEN "light"
                       ELSE theme.since[i].stored)

\* two toggles after a reload that found 'dark' stored by an earlier toggle
C21_Witness ==
    /\ theme.loaded
    /\ Len(theme.since) = 3
    /\ theme.since[1].stored = "dark"
    /\ \E k \in 1..Len(theme.log) : theme.log[k] = "reload"
    /\ theme.log[1] = "toggle"

\* C22: at most one polling-fallback interval timer is ever active: for any
\* sequence of connection errors, including errors after the fallback has
\* started and a throwing connect(), the 10 s setInterval is created at
\* most once per page lifetime.
C22_OnePollingInterval == polls <= 1

BoundedVariants == {"script", "part0", "part1"}

\* C23: in the bounded-retry variants 0 <= retries <= maxRetries (5) in every
\* reachable state; a handled connect_error below the bound increments the
\* counter by exactly 1 and schedules exactly one connect() after
\* 3000 x retries ms; a connect event sets the counter to 0; at the bound a
\* connect_error leaves the counter unchanged and schedules no connect().
C23_RetriesBounded ==
    /\ [](variant \in BoundedVariants => (0 <= retries /\ retries <= maxRetries))
    /\ [][(variant \in BoundedVariants /\ ev' = "connect_error") =>
            IF retries < maxRetries
            THEN /\ retries' = retries + 1
                 /\ timers' = timers + 1
                 /\ delays' = Append(delays, 3000 * retries')
            ELSE /\ retries' = retries
                 /\ timers' = timers
                 /\ delays' = delays]_vars
    /\ [][(variant \in BoundedVariants /\ ev' = "connect") => retries' = 0]_vars

\* a connect_error handled at the bound, after a connection had reset the
\* counter and five more attempts had failed
C23_Witness ==
    /\ variant \in BoundedVariants
    /\ ev = "connect_error"
    /\ everConnected
    /\ retries = maxRetries
    /\ Len(delays) = maxRetries
    /\ polls > 0

C25_FeedBounded ==
    /\ [](/\ Len(feed.items) <= 5
          /\ \A i \in 1..Len(feed.items) : \A j \in 1..Len(feed.items) :
                i < j => feed.items[i].at > feed.items[j].at)
    /\ [][(feed'.events = feed.events + 1 /\ Len(feed.items) = 5
             /\ feed'.items # feed.items) =>
            /\ feed'.items[1] = [hash |-> feed'.last.hash, at |-> feed'.events]
            /\ \A i \in 2..5 : feed'.items[i] = feed.items[i - 1]]_vars
    /\ [][(feed'.events = feed.events + 1 /\ ~feed'.last.tx) =>
            feed'.items = feed.items]_vars

\* the feed after a 6th distinct transaction, and then an event without a
\* transaction field
C25_Witness ==
    /\ Len(feed.items) = 5
    /\ feed.items[5].at = 2
    /\ feed.items[1].at = 6
    /\ feed.last = NoTx
    /\ feed.events = 7

\* C26: the feed never contains two entries with the same tx_hash, and
\* delivering a transaction whose hash is already in the feed leaves the
\* feed unchanged, for any sequence of new_transaction events.
C26_FeedNoDuplicates ==
    /\ [](\A i \in 1..Len(feed.items) : \A j \in 1..Len(feed.items) :
            feed.items[i].hash = feed.items[j].hash => i = j)
    /\ [][(feed'.events = feed.events + 1 /\ feed'.last.tx
             /\ inFeed(feed.items, feed'.last.hash)) =>
            feed'.items = feed.items]_vars

\* the positions p, p+1, ... taken cyclically in a list of length n
IsCyclicWindow(w, n) ==
    /\ Len(w) = 5
    /\ w[1] \in 0..(n - 1)
    /\ \A k \in 1..5 : w[k] = (w[1] + k - 1) % n

C29_HighlightValid ==
    /\ [](variant \in {"script", "yatish"} =>
            /\ picker.index = -1 \/ picker.index \in 0..(picker.items - 1)
            /\ picker.picked \in {"none", "result"})
    /\ [][(variant \in {"script", "yatish"} /\ picker.items > 0
             /\ picker.index \in 0..(picker.items - 1)) =>
            /\ picker'.op = "ArrowDown" =>
                  picker'.index = (picker.index + 1) % picker.items
            /\ picker'.op = "ArrowUp" =>
                  picker'.index = (picker.index + picker.items - 1) % picker.items]_vars

\* C27: polling pulls never overlap and are applied in the order they were
\* issued: a tick issues no requests while those of the previous tick are
\* pending, so an older pull's result is never applied after a newer one's.
C27_PullsDoNotOverlap ==
    /\ Cardinality(poller.pending) <= 1
    /\ \A i \in 1..Len(poller.applied) : \A j \in 1..Len(poller.applied) :
          i < j => poller.applied[i] < poller.applied[j]

====
